---- MODULE Spec2Model ----
(***************************************************************************)
(* aviation_lib: the airport registry (AirportManager), the flight and     *)
(* fuel calculators (FlightCalculator, FuelCalculator) and the weather     *)
(* classifier (WeatherAnalyzer).                                           *)
(*                                                                         *)
(* Conventions.                                                            *)
(*  - A Python str is a sequence of Unicode code points, so that           *)
(*    str.upper() and str.lower() are real conversions.                    *)
(*  - A Python float is an exact rational [n, d] in lowest terms with      *)
(*    d > 0 (rounding error is not modelled).  Coordinates are kept in     *)
(*    units of 1e-4 degree; they only feed the haversine term.             *)
(*  - A Python dict is a sequence of [key, value] entries in insertion     *)
(*    order.                                                               *)
(*  - A call ends in [exc, val]: exc = "none" and the returned value, or   *)
(*    the name of the exception raised.                                    *)
(***************************************************************************)
EXTENDS Integers, Sequences, FiniteSets, TLC

VARIABLES airports, op, ret

vars == <<airports, op, ret>>

-----------------------------------------------------------------------------
(* Python values *)

None == [type |-> "NoneType"]

Returned(v) == [exc |-> "none", val |-> v]

Raised(e) == [exc |-> e, val |-> None]

Call(name, args) == [name |-> name, args |-> args]

-----------------------------------------------------------------------------
(* str: sequences of code points; upper() and lower() on the Latin and the *)
(* Cyrillic letters, every other character of the model is caseless        *)

UpperChar(c) ==
    IF c >= 97 /\ c <= 122 THEN c - 32          \* a..z
    ELSE IF c >= 1072 /\ c <= 1103 THEN c - 32  \* Cyrillic a..ya
    ELSE IF c >= 1104 /\ c <= 1119 THEN c - 80
    ELSE c

LowerChar(c) ==
    IF c >= 65 /\ c <= 90 THEN c + 32           \* A..Z
    ELSE IF c >= 1040 /\ c <= 1071 THEN c + 32  \* Cyrillic A..YA
    ELSE IF c >= 1024 /\ c <= 1039 THEN c + 80
    ELSE c

Upper(s) == [i \in 1..Len(s) |-> UpperChar(s[i])]

Lower(s) == [i \in 1..Len(s) |-> LowerChar(s[i])]

\* a in b, for two str
Contains(b, a) ==
    \E i \in 0..(Len(b) - Len(a)) : SubSeq(b, i + 1, i + Len(a)) = a

-----------------------------------------------------------------------------
(* dict: insertion-ordered entries *)

HasKey(d, k) == \E i \in 1..Len(d) : d[i].key = k

IndexOf(d, k) == CHOOSE i \in 1..Len(d) : d[i].key = k

\* d.get(k, default)
DictGet(d, k, default) == IF HasKey(d, k) THEN d[IndexOf(d, k)].value ELSE default

\* d[k] = v : an existing key keeps its position, a new key goes last
DictSet(d, k, v) ==
    IF HasKey(d, k)
    THEN [d EXCEPT ![IndexOf(d, k)] = [key |-> k, value |-> v]]
    ELSE Append(d, [key |-> k, value |-> v])

Keys(d) == {d[i].key : i \in 1..Len(d)}

Values(d) == [i \in 1..Len(d) |-> d[i].value]

-----------------------------------------------------------------------------
(* Airport *)

Airport(icao_code, name, city, country, latitude, longitude, elevation) ==
    [icao_code |-> icao_code, name |-> name, city |-> city, country |-> country,
     latitude |-> latitude, longitude |-> longitude, elevation |-> elevation]

\* Airport(...) called without elevation
AirportDefaultElevation(icao_code, name, city, country, latitude, longitude) ==
    Airport(icao_code, name, city, country, latitude, longitude, 0)

\* mutant: the record is written without its elevation
to_dict_NoElevation(a) ==
    << [key |-> "icao_code", value |-> a.icao_code],
       [key |-> "name", value |-> a.name],
       [key |-> "city", value |-> a.city],
       [key |-> "country", value |-> a.country],
       [key |-> "latitude", value |-> a.latitude],
       [key |-> "longitude", value |-> a.longitude] >>

to_dict(a) ==
    << [key |-> "icao_code", value |-> a.icao_code],
       [key |-> "name", value |-> a.name],
       [key |-> "city", value |-> a.city],
       [key |-> "country", value |-> a.country],
       [key |-> "latitude", value |-> a.latitude],
       [key |-> "longitude", value |-> a.longitude],
       [key |-> "elevation", value |-> a.elevation] >>

default_airports ==
<<
    \* UUEE
    Airport(<<85, 85, 69, 69>>,
            <<1064, 1077, 1088, 1077, 1084, 1077, 1090, 1100, 1077, 1074, 1086>>,
            <<1052, 1086, 1089, 1082, 1074, 1072>>,
            <<1056, 1086, 1089, 1089, 1080, 1103>>,
            559736, 374145, 190),
    \* UUDD
    Airport(<<85, 85, 68, 68>>,
            <<1044, 1086, 1084, 1086, 1076, 1077, 1076, 1086, 1074, 1086>>,
            <<1052, 1086, 1089, 1082, 1074, 1072>>,
            <<1056, 1086, 1089, 1089, 1080, 1103>>,
            554146, 378994, 179),
    \* UUMO
    Airport(<<85, 85, 77, 79>>,
            <<1042, 1085, 1091, 1082, 1086, 1074, 1086>>,
            <<1052, 1086, 1089, 1082, 1074, 1072>>,
            <<1056, 1086, 1089, 1089, 1080, 1103>>,
            555915, 372615, 209),
    \* EGLL
    Airport(<<69, 71, 76, 76>>,
            <<1061, 1080, 1090, 1088, 1086, 1091>>,
            <<1051, 1086, 1085, 1076, 1086, 1085>>,
            <<1042, 1077, 1083, 1080, 1082, 1086, 1073, 1088, 1080, 1090, 1072, 1085, 1080, 1103>>,
            514700, -4543, 25),
    \* LFPG
    Airport(<<76, 70, 80, 71>>,
            <<1064, 1072, 1088, 1083, 1100, 32, 1076, 1077, 32, 1043, 1086, 1083, 1083, 1100>>,
            <<1055, 1072, 1088, 1080, 1078>>,
            <<1060, 1088, 1072, 1085, 1094, 1080, 1103>>,
            490097, 25479, 119),
    \* EDDF
    Airport(<<69, 68, 68, 70>>,
            <<1060, 1088, 1072, 1085, 1082, 1092, 1091, 1088, 1090>>,
            <<1060, 1088, 1072, 1085, 1082, 1092, 1091, 1088, 1090>>,
            <<1043, 1077, 1088, 1084, 1072, 1085, 1080, 1103>>,
            500379, 85622, 113),
    \* KJFK
    Airport(<<75, 74, 70, 75>>,
            <<1050, 1077, 1085, 1085, 1077, 1076, 1080>>,
            <<1053, 1100, 1102, 45, 1049, 1086, 1088, 1082>>,
            <<1057, 1064, 1040>>,
            406413, -737781, 4),
    \* KLAX
    Airport(<<75, 76, 65, 88>>,
            <<1051, 1086, 1089, 45, 1040, 1085, 1076, 1078, 1077, 1083, 1077, 1089>>,
            <<1051, 1086, 1089, 45, 1040, 1085, 1076, 1078, 1077, 1083, 1077, 1089>>,
            <<1057, 1064, 1040>>,
            339416, -1184085, 38),
    \* RJTT
    Airport(<<82, 74, 84, 84>>,
            <<1061, 1072, 1085, 1077, 1076, 1072>>,
            <<1058, 1086, 1082, 1080, 1086>>,
            <<1071, 1087, 1086, 1085, 1080, 1103>>,
            355494, 1397798, 6),
    \* ZBAA
    Airport(<<90, 66, 65, 65>>,
            <<1055, 1077, 1082, 1080, 1085, 32, 1057, 1090, 1086, 1083, 1080, 1095, 1085, 1099, 1081>>,
            <<1055, 1077, 1082, 1080, 1085>>,
            <<1050, 1080, 1090, 1072, 1081>>,
            400801, 1165846, 35)
>>

-----------------------------------------------------------------------------
(* AirportManager *)

RECURSIVE StoreAll(_, _)
\* for airport in default_airports: self.airports[airport.icao_code] = airport
StoreAll(d, list) ==
    IF list = <<>> THEN d
    ELSE StoreAll(DictSet(d, Head(list).icao_code, Head(list)), Tail(list))

\* AirportManager(): an empty dict, then the default airports
load_default_airports == StoreAll(<<>>, default_airports)

\* the key add_airport stores an airport under
StoreKey(a) == a.icao_code

add_airport(d, a) == DictSet(d, StoreKey(a), a)

\* the key get_airport looks a code up under
LookupKey(icao_code) == Upper(icao_code)

get_airport(d, icao_code) == DictGet(d, LookupKey(icao_code), None)

\* `not x` for x an Airport or None: Airport defines neither __bool__ nor __len__
Falsy(x) == x = None

\* mutant: the ICAO code is not searched
Matches_NoCode(a, q) ==
    \/ Contains(Lower(a.name), q)
    \/ Contains(Lower(a.city), q)
    \/ Contains(Lower(a.country), q)

Matches(a, q) ==
    \/ Contains(Lower(a.name), q)
    \/ Contains(Lower(a.city), q)
    \/ Contains(Lower(a.country), q)
    \/ Contains(Lower(a.icao_code), q)

search_airports(d, query) ==
    LET q == Lower(query)
        Hit(a) == Matches(a, q)
    IN  SelectSeq(Values(d), Hit)

get_airports_by_country(d, country) ==
    LET Hit(a) == Lower(a.country) = Lower(country)
    IN  SelectSeq(Values(d), Hit)

\* earth_radius * 2 * asin(sqrt(a)): an uninterpreted float of the four
\* coordinates (a lies in [0, 1], so asin and sqrt are defined)
Haversine(lat1, lon1, lat2, lon2) ==
    [type |-> "float", km |-> <<lat1, lon1, lat2, lon2>>]

calculate_distance_between_airports(d, icao1, icao2) ==
    LET airport1 == get_airport(d, icao1)
        airport2 == get_airport(d, icao2)
    IN  IF Falsy(airport1) \/ Falsy(airport2) THEN None
        ELSE Haversine(airport1.latitude, airport1.longitude,
                       airport2.latitude, airport2.longitude)

\* f"{dep} -> {arr}" with U+2192 between two spaces
RouteLabel(dep, arr) == dep \o <<32, 8594, 32>> \o arr

get_route_info(d, departure, arrival) ==
    LET dep_airport == get_airport(d, departure)
        arr_airport == get_airport(d, arrival)
    IN  IF Falsy(dep_airport) \/ Falsy(arr_airport) THEN None
        ELSE << [key |-> "departure", value |-> to_dict(dep_airport)],
                [key |-> "arrival", value |-> to_dict(arr_airport)],
                [key |-> "distance_km",
                 value |-> calculate_distance_between_airports(d, departure, arrival)],
                [key |-> "route",
                 value |-> RouteLabel(dep_airport.icao_code, arr_airport.icao_code)] >>

\* the list json.dump writes
export_airports(d) == [i \in 1..Len(d) |-> to_dict(d[i].value)]

RequiredKeys == {"icao_code", "name", "city", "country", "latitude", "longitude"}

\* Airport(icao_code=airport_data['icao_code'], ..., elevation=airport_data.get('elevation', 0))
AirportFromRecord(r) ==
    Airport(DictGet(r, "icao_code", None), DictGet(r, "name", None),
            DictGet(r, "city", None), DictGet(r, "country", None),
            DictGet(r, "latitude", None), DictGet(r, "longitude", None),
            DictGet(r, "elevation", 0))

RECURSIVE import_airports(_, _)
\* the loop over the loaded list; a record without a required key raises
\* KeyError and leaves the airports added so far in place
import_airports(d, airports_data) ==
    IF airports_data = <<>> THEN [exc |-> "none", airports |-> d]
    ELSE IF \E k \in RequiredKeys : ~HasKey(Head(airports_data), k)
         THEN [exc |-> "KeyError", airports |-> d]
         ELSE import_airports(add_airport(d, AirportFromRecord(Head(airports_data))),
                              Tail(airports_data))

-----------------------------------------------------------------------------
(* inputs of the registry operations *)

\* "Sheremetyevo", "Moscow", "Russia", "Test", "Testville", "Testland"
NameSVO == <<83, 104, 101, 114, 101, 109, 101, 116, 121, 101, 118, 111>>
CityMoscow == <<77, 111, 115, 99, 111, 119>>
CountryRussia == <<82, 117, 115, 115, 105, 97>>
NameTest == <<84, 101, 115, 116>>
CityTest == <<84, 101, 115, 116, 118, 105, 108, 108, 101>>
CountryTest == <<84, 101, 115, 116, 108, 97, 110, 100>>

UUEE == <<85, 85, 69, 69>>
uuee == <<117, 117, 101, 101>>
Egll == <<69, 103, 108, 108>>
ABCD == <<65, 66, 67, 68>>
abcd == <<97, 98, 99, 100>>
ZZZZ == <<90, 90, 90, 90>>

\* airports a caller adds: an overwrite of a default, the lower-case code of
\* a default, a new code in both cases, one without elevation
NewAirports ==
    { Airport(UUEE, NameSVO, CityMoscow, CountryRussia, 559700, 374100, 192),
      Airport(uuee, NameSVO, CityMoscow, CountryRussia, 559700, 374100, 192),
      Airport(ABCD, NameTest, CityTest, CountryTest, 100000, 200000, 5),
      AirportDefaultElevation(abcd, NameTest, CityTest, CountryTest, 100000, 200000) }

\* codes a caller looks up: stored and not, in upper, lower and mixed case
LookupCodes == {UUEE, uuee, Egll, ABCD, abcd, ZZZZ}

\* "Москва", "москва", "test", "uu", ""
Queries ==
    { <<1052, 1086, 1089, 1082, 1074, 1072>>,
      <<1084, 1086, 1089, 1082, 1074, 1072>>,
      <<116, 101, 115, 116>>,
      <<117, 117>>,
      <<>> }

\* lists a file may hold: one record with a lower-case code and no elevation,
\* and one record lacking "name" after a good one
RecordABCD ==
    << [key |-> "icao_code", value |-> abcd], [key |-> "name", value |-> NameTest],
       [key |-> "city", value |-> CityTest], [key |-> "country", value |-> CountryTest],
       [key |-> "latitude", value |-> 100000], [key |-> "longitude", value |-> 200000] >>

RecordNoName ==
    << [key |-> "icao_code", value |-> ZZZZ],
       [key |-> "city", value |-> CityTest], [key |-> "country", value |-> CountryTest],
       [key |-> "latitude", value |-> 0], [key |-> "longitude", value |-> 0] >>

ImportFiles == { <<RecordABCD>>, <<RecordABCD, RecordNoName>> }

-----------------------------------------------------------------------------
(* the registry as a state machine *)

Init ==
    /\ airports = load_default_airports
    /\ op = Call("AirportManager", <<>>)
    /\ ret = Returned(None)

AddAirport(a) ==
    /\ airports' = add_airport(airports, a)
    /\ op' = Call("add_airport", <<a>>)
    /\ ret' = Returned(None)

GetAirport(c) ==
    /\ op' = Call("get_airport", <<c>>)
    /\ ret' = Returned(get_airport(airports, c))
    /\ UNCHANGED airports

SearchAirports(q) ==
    /\ op' = Call("search_airports", <<q>>)
    /\ ret' = Returned(search_airports(airports, q))
    /\ UNCHANGED airports

CalculateDistance(c1, c2) ==
    /\ op' = Call("calculate_distance_between_airports", <<c1, c2>>)
    /\ ret' = Returned(calculate_distance_between_airports(airports, c1, c2))
    /\ UNCHANGED airports

GetRouteInfo(c1, c2) ==
    /\ op' = Call("get_route_info", <<c1, c2>>)
    /\ ret' = Returned(get_route_info(airports, c1, c2))
    /\ UNCHANGED airports

\* export_airports writes the list and returns None; the written list is
\* kept as the call's second argument
ExportAirports ==
    /\ op' = Call("export_airports", <<export_airports(airports)>>)
    /\ ret' = Returned(None)
    /\ UNCHANGED airports

\* import_airports of a file that holds one of ImportFiles or what
\* export_airports writes now
ImportAirports(data) ==
    LET r == import_airports(airports, data)
    IN  /\ op' = Call("import_airports", <<data>>)
        /\ airports' = r.airports
        /\ ret' = IF r.exc = "none" THEN Returned(None) ELSE Raised(r.exc)

\* import_airports of a file that does not exist: open() raises
ImportMissingFile ==
    /\ op' = Call("import_airports", <<>>)
    /\ ret' = Raised("FileNotFoundError")
    /\ UNCHANGED airports

Next ==
    \/ \E a \in NewAirports : AddAirport(a)
    \/ \E c \in LookupCodes : GetAirport(c)
    \/ \E q \in Queries : SearchAirports(q)
    \/ \E c1, c2 \in LookupCodes : CalculateDistance(c1, c2)
    \/ \E c1, c2 \in LookupCodes : GetRouteInfo(c1, c2)
    \/ ExportAirports
    \/ \E data \in ImportFiles \cup {export_airports(airports)} : ImportAirports(data)
    \/ ImportMissingFile

Spec == Init /\ [][Next]_vars

-----------------------------------------------------------------------------
(* float: exact rationals in lowest terms.  A division by zero yields   *)
(* DivError, which every later operation passes on: the call that computed *)
(* it ends in ZeroDivisionError                                            *)

Abs(i) == IF i < 0 THEN -i ELSE i

RECURSIVE GCD(_, _)
GCD(a, b) == IF b = 0 THEN a ELSE GCD(b, a % b)

DivError == [n |-> 0, d |-> 0]

Sign(i) == IF i < 0 THEN -1 ELSE 1

Reduce(n, d, g) == [n |-> (Sign(d) * n) \div g, d |-> (Sign(d) * d) \div g]

Rat(n, d) == IF d = 0 THEN DivError ELSE Reduce(n, d, GCD(Abs(n), Abs(d)))

Num(i) == [n |-> i, d |-> 1]

Zero == Num(0)

Mul(a, b) == Rat(a.n * b.n, a.d * b.d)

Add(a, b) == Rat(a.n * b.d + b.n * a.d, a.d * b.d)

Less(a, b) == a.n * b.d < b.n * a.d

LessEq(a, b) == a.n * b.d <= b.n * a.d

\* a / b
Div(a, b) == Rat(a.n * b.d, a.d * b.n)

\* how a call that computed the floats xs ends
Outcome(xs, v) ==
    IF \E i \in 1..Len(xs) : xs[i] = DivError THEN Raised("ZeroDivisionError")
    ELSE Returned(v)

-----------------------------------------------------------------------------
(* FlightCalculator *)

calculate_flight_time(distance, speed, wind_factor) ==
    IF LessEq(speed, Zero) THEN Raised("ValueError")
    ELSE LET effective_speed == Mul(speed, wind_factor)
             time == Div(distance, effective_speed)
         IN  Outcome(<<time>>, time)

\* "boeing_737", "airbus_a320", "boeing_777", "airbus_a380", "cessna_172", "default"
boeing_737 == <<98, 111, 101, 105, 110, 103, 95, 55, 51, 55>>
airbus_a320 == <<97, 105, 114, 98, 117, 115, 95, 97, 51, 50, 48>>
boeing_777 == <<98, 111, 101, 105, 110, 103, 95, 55, 55, 55>>
airbus_a380 == <<97, 105, 114, 98, 117, 115, 95, 97, 51, 56, 48>>
cessna_172 == <<99, 101, 115, 115, 110, 97, 95, 49, 55, 50>>
default == <<100, 101, 102, 97, 117, 108, 116>>

\* FlightCalculator.calculate_fuel_consumption's table (l/100km)
fuel_rates ==
    << [key |-> boeing_737, value |-> Rat(25, 10)],
       [key |-> airbus_a320, value |-> Rat(23, 10)],
       [key |-> boeing_777, value |-> Rat(42, 10)],
       [key |-> airbus_a380, value |-> Rat(58, 10)],
       [key |-> cessna_172, value |-> Rat(8, 10)],
       [key |-> default, value |-> Rat(20, 10)] >>

\* mutant: the type is looked up without lower-casing
flight_calculate_fuel_consumption_AsGiven(distance, aircraft_type) ==
    LET rate == DictGet(fuel_rates, aircraft_type, DictGet(fuel_rates, default, None))
        fuel == Mul(Div(distance, Num(100)), rate)
    IN  Outcome(<<fuel>>, fuel)

\* FlightCalculator.calculate_fuel_consumption
flight_calculate_fuel_consumption(distance, aircraft_type) ==
    LET rate == DictGet(fuel_rates, Lower(aircraft_type), DictGet(fuel_rates, default, None))
        fuel == Mul(Div(distance, Num(100)), rate)
    IN  Outcome(<<fuel>>, fuel)

-----------------------------------------------------------------------------
(* FuelCalculator *)

Profile(fuel_rate, cruise_speed, max_range, fuel_capacity) ==
    [fuel_rate |-> fuel_rate, cruise_speed |-> Num(cruise_speed),
     max_range |-> Num(max_range), fuel_capacity |-> Num(fuel_capacity)]

aircraft_profiles ==
    << [key |-> boeing_737, value |-> Profile(Rat(25, 10), 800, 5000, 26000)],
       [key |-> airbus_a320, value |-> Profile(Rat(23, 10), 820, 5500, 24000)],
       [key |-> boeing_777, value |-> Profile(Rat(42, 10), 900, 15000, 180000)],
       [key |-> airbus_a380, value |-> Profile(Rat(58, 10), 900, 15000, 320000)],
       [key |-> cessna_172, value |-> Profile(Rat(8, 10), 200, 1000, 200)],
       [key |-> default, value |-> Profile(Rat(20, 10), 600, 3000, 5000)] >>

\* mutant: the type is looked up as given
ProfileKey_AsGiven(aircraft_type) == aircraft_type

\* the key a profile is looked up under
ProfileKey(aircraft_type) == Lower(aircraft_type)

\* self.aircraft_profiles.get(aircraft_type.lower(), self.aircraft_profiles["default"])
get_aircraft_info(aircraft_type) ==
    DictGet(aircraft_profiles, ProfileKey(aircraft_type),
            DictGet(aircraft_profiles, default, None))

FuelConsumption(total_fuel, fuel_per_100km, fuel_per_hour, flight_time, distance) ==
    [total_fuel |-> total_fuel, fuel_per_100km |-> fuel_per_100km,
     fuel_per_hour |-> fuel_per_hour, flight_time |-> flight_time,
     distance |-> distance]

\* mutant: the division without its zero guard
FuelPerHour_Unguarded(total_fuel, flight_time) == Div(total_fuel, flight_time)

\* fuel_per_hour = total_fuel / flight_time if flight_time > 0 else 0
FuelPerHour(total_fuel, flight_time) ==
    IF Less(Zero, flight_time) THEN Div(total_fuel, flight_time) ELSE Zero

\* the floats of calculate_fuel_consumption, from the profile found
Consumption(profile, distance, wind_factor, payload_factor) ==
    LET base_fuel_rate == profile.fuel_rate
        adjusted_fuel_rate == Mul(Mul(base_fuel_rate, wind_factor), payload_factor)
        cruise_speed == profile.cruise_speed
        flight_time == Div(distance, cruise_speed)
        total_fuel == Mul(Div(distance, Num(100)), adjusted_fuel_rate)
        fuel_per_hour == FuelPerHour(total_fuel, flight_time)
    IN  FuelConsumption(total_fuel, adjusted_fuel_rate, fuel_per_hour, flight_time, distance)

Floats(c) == <<c.flight_time, c.total_fuel, c.fuel_per_hour>>

Finish(c) == Outcome(Floats(c), c)

calculate_fuel_consumption(distance, aircraft_type, wind_factor, payload_factor) ==
    Finish(Consumption(get_aircraft_info(aircraft_type), distance, wind_factor, payload_factor))

calculate_fuel_efficiency(distance, fuel_used) ==
    IF LessEq(fuel_used, Zero) THEN Returned(Zero)
    ELSE Outcome(<<Div(distance, fuel_used)>>, Div(distance, fuel_used))

\* reserve_30min + reserve_5percent
Reserve(base_consumption) ==
    IF base_consumption.exc # "none" THEN base_consumption
    ELSE Returned(Add(Mul(base_consumption.val.fuel_per_hour, Rat(5, 10)),
                      Mul(base_consumption.val.total_fuel, Rat(5, 100))))

\* base_consumption is computed at the default wind and payload factors
calculate_fuel_reserve(aircraft_type, distance) ==
    Reserve(calculate_fuel_consumption(distance, aircraft_type, Num(1), Num(1)))

\* the dict compare_aircraft_efficiency appends for one type
Entry(aircraft_type, consumption, efficiency) ==
    IF consumption.exc # "none" THEN consumption
    ELSE IF efficiency.exc # "none" THEN efficiency
    ELSE Returned([aircraft_type |-> aircraft_type,
                   fuel_consumption |-> consumption.val.total_fuel,
                   efficiency |-> efficiency.val,
                   flight_time |-> consumption.val.flight_time,
                   fuel_per_100km |-> consumption.val.fuel_per_100km])

Efficiency(distance, consumption) ==
    IF consumption.exc # "none" THEN consumption
    ELSE calculate_fuel_efficiency(distance, consumption.val.total_fuel)

EntryOf(distance, aircraft_type, consumption) ==
    Entry(aircraft_type, consumption, Efficiency(distance, consumption))

CompareEntry(distance, aircraft_type) ==
    EntryOf(distance, aircraft_type,
            calculate_fuel_consumption(distance, aircraft_type, Num(1), Num(1)))

\* mutant: an entry also goes before its equals, which reverses ties
Ranks_Unstable(x, y) == LessEq(y.efficiency, x.efficiency)

\* mutant: ascending order, reverse=True left out
Ranks_Ascending(x, y) == Less(x.efficiency, y.efficiency)

\* x goes before the first entry of the sorted list that ranks strictly after it
Ranks(x, y) == Less(y.efficiency, x.efficiency)

RECURSIVE Insert(_, _)
Insert(sorted, x) ==
    IF sorted = <<>> THEN <<x>>
    ELSE IF Ranks(x, Head(sorted)) THEN <<x>> \o sorted
    ELSE <<Head(sorted)>> \o Insert(Tail(sorted), x)

RECURSIVE SortFrom(_, _)
SortFrom(sorted, rest) ==
    IF rest = <<>> THEN sorted
    ELSE SortFrom(Insert(sorted, Head(rest)), Tail(rest))

\* results.sort(key=lambda x: x["efficiency"], reverse=True): list.sort is
\* stable, also under reverse=True
SortByEfficiency(results) == SortFrom(<<>>, results)

\* the first exception raised in the loop, else the sorted results
Compared(entries) ==
    IF \E i \in 1..Len(entries) : entries[i].exc # "none"
    THEN entries[CHOOSE i \in 1..Len(entries) :
                    /\ entries[i].exc # "none"
                    /\ \A j \in 1..(i - 1) : entries[j].exc = "none"]
    ELSE Returned(SortByEfficiency([i \in 1..Len(entries) |-> entries[i].val]))

compare_aircraft_efficiency(distance, aircraft_types) ==
    Compared([i \in 1..Len(aircraft_types) |-> CompareEntry(distance, aircraft_types[i])])

-----------------------------------------------------------------------------
(* the calculators: one call, with its arguments drawn from these sets *)

Distances == {Num(-100), Num(0), Num(50), Num(1000)}

Speeds == {Num(-100), Num(0), Num(200), Num(800)}

WindFactors == {Num(-1), Num(0), Rat(8, 10), Num(1), Rat(12, 10)}

PayloadFactors == {Num(0), Rat(8, 10), Num(1), Rat(12, 10)}

FuelAmounts == {Num(-5), Num(0), Rat(1, 2), Num(25)}

\* "BOEING_737", "Cessna_172", "DEFAULT", "glider"
BOEING_737 == <<66, 79, 69, 73, 78, 71, 95, 55, 51, 55>>
Cessna_172 == <<67, 101, 115, 115, 110, 97, 95, 49, 55, 50>>
DEFAULT == <<68, 69, 70, 65, 85, 76, 84>>
glider == <<103, 108, 105, 100, 101, 114>>

AircraftTypes ==
    Keys(aircraft_profiles) \cup {BOEING_737, Cessna_172, DEFAULT, glider}

\* the longest aircraft_types list compared
MaxTypes == 3

\* types compared: the table's keys, one in another letter case, an unknown one
CompareTypes == Keys(aircraft_profiles) \cup {BOEING_737, glider}

TypeLists == UNION {[1..k -> CompareTypes] : k \in 0..MaxTypes}

\* a call made and not yet returned
Pending == [exc |-> "pending", val |-> None]

\* the calculators are constructed and one call is made
CalcInit ==
    /\ airports = load_default_airports
    /\ ret = Pending
    /\ \/ \E d \in Distances, s \in Speeds, w \in WindFactors :
             op = Call("calculate_flight_time", <<d, s, w>>)
       \/ \E d \in Distances, s \in Speeds :
             op = Call("calculate_flight_time", <<d, s>>)
       \/ \E d \in Distances, t \in AircraftTypes :
             op = Call("FlightCalculator.calculate_fuel_consumption", <<d, t>>)
       \/ \E d \in Distances, t \in AircraftTypes, w \in WindFactors, p \in PayloadFactors :
             op = Call("calculate_fuel_consumption", <<d, t, w, p>>)
       \/ \E d \in Distances, f \in FuelAmounts :
             op = Call("calculate_fuel_efficiency", <<d, f>>)
       \/ \E t \in AircraftTypes, d \in Distances :
             op = Call("calculate_fuel_reserve", <<t, d>>)
       \/ \E d \in Distances, ts \in TypeLists :
             op = Call("compare_aircraft_efficiency", <<d, ts>>)

Called(name, nargs) == op.name = name /\ Len(op.args) = nargs /\ ret = Pending

CalculateFlightTime ==
    /\ Called("calculate_flight_time", 3)
    /\ ret' = calculate_flight_time(op.args[1], op.args[2], op.args[3])
    /\ UNCHANGED <<airports, op>>

\* calculate_flight_time(distance, speed): wind_factor takes its default 1.0
CalculateFlightTimeDefault ==
    /\ Called("calculate_flight_time", 2)
    /\ ret' = calculate_flight_time(op.args[1], op.args[2], Num(1))
    /\ UNCHANGED <<airports, op>>

FlightCalculateFuelConsumption ==
    /\ Called("FlightCalculator.calculate_fuel_consumption", 2)
    /\ ret' = flight_calculate_fuel_consumption(op.args[1], op.args[2])
    /\ UNCHANGED <<airports, op>>

CalculateFuelConsumption ==
    /\ Called("calculate_fuel_consumption", 4)
    /\ ret' = calculate_fuel_consumption(op.args[1], op.args[2], op.args[3], op.args[4])
    /\ UNCHANGED <<airports, op>>

CalculateFuelEfficiency ==
    /\ Called("calculate_fuel_efficiency", 2)
    /\ ret' = calculate_fuel_efficiency(op.args[1], op.args[2])
    /\ UNCHANGED <<airports, op>>

CalculateFuelReserve ==
    /\ Called("calculate_fuel_reserve", 2)
    /\ ret' = calculate_fuel_reserve(op.args[1], op.args[2])
    /\ UNCHANGED <<airports, op>>

CompareAircraftEfficiency ==
    /\ Called("compare_aircraft_efficiency", 2)
    /\ ret' = compare_aircraft_efficiency(op.args[1], op.args[2])
    /\ UNCHANGED <<airports, op>>

CalcNext ==
    \/ CalculateFlightTime
    \/ CalculateFlightTimeDefault
    \/ FlightCalculateFuelConsumption
    \/ CalculateFuelConsumption
    \/ CalculateFuelEfficiency
    \/ CalculateFuelReserve
    \/ CompareAircraftEfficiency

CalcSpec == CalcInit /\ [][CalcNext]_vars

-----------------------------------------------------------------------------
(* WeatherAnalyzer *)

visibility_thresholds ==
    [excellent |-> 10000, good |-> 5000, fair |-> 2000, poor |-> 1000, dangerous |-> 500]

wind_thresholds ==
    [excellent |-> 10, good |-> 15, fair |-> 20, poor |-> 25, dangerous |-> 30]

\* a visibility argument: None, or a number
Visibility(v) == [type |-> "number", value |-> v]

\* mutant: the poor grade is tested first and hides the dangerous one
VisibilityCheck_PoorFirst(visibility) ==
    IF visibility # None
    THEN IF visibility.value < visibility_thresholds.poor THEN "poor"
         ELSE IF visibility.value < visibility_thresholds.dangerous THEN "dangerous"
         ELSE ""
    ELSE ""

\* the early returns of the visibility check, "" when it falls through
VisibilityCheck(visibility) ==
    IF visibility # None
    THEN IF visibility.value < visibility_thresholds.dangerous THEN "dangerous"
         ELSE IF visibility.value < visibility_thresholds.poor THEN "poor"
         ELSE ""
    ELSE ""

\* the early returns of the wind check, "" when it falls through
WindCheck(wind_speed) ==
    IF wind_speed > wind_thresholds.dangerous THEN "dangerous"
    ELSE IF wind_speed > wind_thresholds.poor THEN "poor"
    ELSE ""

get_overall_condition(temperature, pressure, wind_speed, visibility) ==
    LET pressure_deviation == Abs(pressure - 1013)
    IN  IF VisibilityCheck(visibility) # "" THEN VisibilityCheck(visibility)
        ELSE IF WindCheck(wind_speed) # "" THEN WindCheck(wind_speed)
        ELSE IF pressure_deviation > 50 THEN "poor"
        ELSE IF temperature < -40 \/ temperature > 50 THEN "poor"
        ELSE IF /\ wind_speed < wind_thresholds.excellent
                /\ pressure_deviation < 20
                /\ (visibility = None \/ visibility.value > visibility_thresholds.excellent)
             THEN "excellent"
        ELSE IF wind_speed < wind_thresholds.good /\ pressure_deviation < 30
             THEN "good"
        ELSE "fair"

\* the advisory strings, by name
StrongWind == "strong wind"
LowPressure == "low pressure"
HighPressure == "high pressure"
LimitedVisibility == "limited visibility"
ExtremeCold == "extremely low temperature"
ExtremeHeat == "extremely high temperature"
Favourable == "conditions are favourable for flight"

\* mutant: the strong-wind advisory starts at the dangerous wind threshold
get_recommendations_LateWind(temperature, pressure, wind_speed, visibility) ==
    LET r1 == IF wind_speed > wind_thresholds.dangerous THEN <<StrongWind>> ELSE <<>>
        r2 == IF pressure < 1000 THEN <<LowPressure>>
              ELSE IF pressure > 1030 THEN <<HighPressure>> ELSE <<>>
        r3 == IF visibility # None /\ visibility.value < visibility_thresholds.good
              THEN <<LimitedVisibility>> ELSE <<>>
        r4 == IF temperature < -20 THEN <<ExtremeCold>>
              ELSE IF temperature > 40 THEN <<ExtremeHeat>> ELSE <<>>
        recommendations == r1 \o r2 \o r3 \o r4
    IN  IF recommendations = <<>> THEN <<Favourable>> ELSE recommendations

get_recommendations(temperature, pressure, wind_speed, visibility) ==
    LET r1 == IF wind_speed > wind_thresholds.fair THEN <<StrongWind>> ELSE <<>>
        r2 == IF pressure < 1000 THEN <<LowPressure>>
              ELSE IF pressure > 1030 THEN <<HighPressure>> ELSE <<>>
        r3 == IF visibility # None /\ visibility.value < visibility_thresholds.good
              THEN <<LimitedVisibility>> ELSE <<>>
        r4 == IF temperature < -20 THEN <<ExtremeCold>>
              ELSE IF temperature > 40 THEN <<ExtremeHeat>> ELSE <<>>
        recommendations == r1 \o r2 \o r3 \o r4
    IN  IF recommendations = <<>> THEN <<Favourable>> ELSE recommendations

analyze_conditions(temperature, pressure, wind_speed, visibility) ==
    [temperature |-> temperature, pressure |-> pressure, wind_speed |-> wind_speed,
     visibility |-> visibility,
     overall_condition |-> get_overall_condition(temperature, pressure, wind_speed, visibility),
     recommendations |-> get_recommendations(temperature, pressure, wind_speed, visibility)]

Temperatures == {-41, -40, -21, -20, 20, 40, 41, 50, 51}

Pressures == {962, 963, 983, 984, 993, 994, 999, 1000, 1013, 1030, 1031, 1033, 1043, 1063, 1064}

WindSpeeds == {0, 9, 10, 14, 15, 20, 21, 25, 26, 30, 31, 35}

Visibilities ==
    {None} \cup {Visibility(v) : v \in {0, 400, 499, 500, 700, 999, 1000, 4999, 5000,
                                        10000, 10001}}

\* the analyzer is constructed and one call is made
WeatherInit ==
    /\ airports = load_default_airports
    /\ ret = Pending
    /\ \/ \E t \in Temperatures, p \in Pressures, w \in WindSpeeds, v \in Visibilities :
             op = Call("analyze_conditions", <<t, p, w, v>>)
       \/ \E t \in Temperatures, p \in Pressures, w \in WindSpeeds :
             op = Call("analyze_conditions", <<t, p, w>>)

AnalyzeConditions ==
    /\ Called("analyze_conditions", 4)
    /\ ret' = Returned(analyze_conditions(op.args[1], op.args[2], op.args[3], op.args[4]))
    /\ UNCHANGED <<airports, op>>

\* analyze_conditions(temperature, pressure, wind_speed): visibility defaults to None
AnalyzeConditionsDefault ==
    /\ Called("analyze_conditions", 3)
    /\ ret' = Returned(analyze_conditions(op.args[1], op.args[2], op.args[3], None))
    /\ UNCHANGED <<airports, op>>

WeatherNext == AnalyzeConditions \/ AnalyzeConditionsDefault

WeatherSpec == WeatherInit /\ [][WeatherNext]_vars

-----------------------------------------------------------------------------
(* the claims *)

EqIgnoreCase(x, y) == Lower(x) = Lower(y)

\* some stored airport's code equals c ignoring letter case
Registered(c) ==
    \E i \in 1..Len(airports) : EqIgnoreCase(airports[i].value.icao_code, c)

Done(name) == op.name = name /\ ret # Pending

\* C1: every key of the airports mapping equals the uppercase form of the
\* icao_code of the airport stored under it.
C1_KeysAreUppercase ==
    \A i \in 1..Len(airports) : airports[i].key = Upper(airports[i].value.icao_code)

\* C2: right after add_airport(a), get_airport(c) returns a for every c that
\* equals a.icao_code ignoring case; and get_airport(c) returns None exactly
\* when no stored airport's code equals c ignoring case.
C2_CaseInsensitiveLookup ==
    /\ op.name = "add_airport" =>
          \A c \in LookupCodes :
             EqIgnoreCase(c, op.args[1].icao_code) => get_airport(airports, c) = op.args[1]
    /\ op.name = "get_airport" =>
          /\ ret.exc = "none"
          /\ (ret.val = None) <=> ~Registered(op.args[1])

\* C3: analyze_conditions with wind_speed above the dangerous wind threshold
\* returns overall_condition "dangerous", whatever the temperature, the
\* pressure and the visibility (absent or a number) are.
C3_DangerousWind ==
    (Done("analyze_conditions") /\ op.args[3] > wind_thresholds.dangerous)
        => ret.val.overall_condition = "dangerous"

\* C4: the only call that ends in an error is calculate_flight_time with
\* speed <= 0, and calculate_flight_time with speed > 0 returns a value for
\* every distance and wind_factor.
C4_OnlySpeedValidationRaises ==
    /\ (ret # Pending /\ ret.exc # "none")
          => (op.name = "calculate_flight_time" /\ LessEq(op.args[2], Zero))
    /\ (Done("calculate_flight_time") /\ Less(Zero, op.args[2])) => ret.exc = "none"

\* the wind_factor of a calculate_flight_time call: 1.0 when not passed
WindFactorOf(args) == IF Len(args) = 3 THEN args[3] ELSE Num(1)

\* C5: calculate_flight_time returns distance / (speed * wind_factor) for
\* every speed > 0 (distance / speed at the default wind_factor), and fails
\* with ValueError for every speed <= 0.
C5_FlightTime ==
    Done("calculate_flight_time") =>
        IF Less(Zero, op.args[2])
        THEN /\ ret.exc = "none"
             /\ Mul(ret.val, Mul(op.args[2], WindFactorOf(op.args))) = op.args[1]
        ELSE ret = Raised("ValueError")

\* the value stored under "k" in a composite
Field(composite, k) == DictGet(composite, k, None)

\* the stored airport whose code equals c ignoring case, looked up by key
Stored(c) == DictGet(airports, Upper(c), None)

\* C6: calculate_distance_between_airports and get_route_info return None,
\* without raising, exactly when one of the two codes is unregistered; with
\* both registered get_route_info returns the two airports' records, a
\* distance that is not None and equals calculate_distance_between_airports
\* of the two codes, and the label "<stored departure code> -> <stored
\* arrival code>".
C6_AbsentIffUnregistered ==
    /\ op.name = "calculate_distance_between_airports" =>
          /\ ret.exc = "none"
          /\ (ret.val = None) <=> ~(Registered(op.args[1]) /\ Registered(op.args[2]))
    /\ op.name = "get_route_info" =>
          /\ ret.exc = "none"
          /\ (ret.val = None) <=> ~(Registered(op.args[1]) /\ Registered(op.args[2]))
          /\ ret.val # None =>
                /\ Field(ret.val, "departure") = to_dict(Stored(op.args[1]))
                /\ Field(ret.val, "arrival") = to_dict(Stored(op.args[2]))
                /\ Field(ret.val, "distance_km") # None
                /\ Field(ret.val, "distance_km") =
                      calculate_distance_between_airports(airports, op.args[1], op.args[2])
                /\ Field(ret.val, "route") =
                      RouteLabel(Stored(op.args[1]).icao_code, Stored(op.args[2]).icao_code)

KnownType(aircraft_type) == Lower(aircraft_type) \in Keys(aircraft_profiles)

\* C7: calculate_fuel_consumption with a type whose lowercased form is not a
\* key of the profile table returns, without failing, what it returns for
\* "default"; with a type whose lowercased form is a key it returns the same
\* for every letter-case variant of the type.
C7_DefaultFallback ==
    Done("calculate_fuel_consumption") =>
        LET distance == op.args[1]
            aircraft_type == op.args[2]
            wind_factor == op.args[3]
            payload_factor == op.args[4]
        IN  IF KnownType(aircraft_type)
            THEN \A t \in AircraftTypes :
                    EqIgnoreCase(t, aircraft_type) =>
                       ret = calculate_fuel_consumption(distance, t, wind_factor, payload_factor)
            ELSE /\ ret.exc = "none"
                 /\ ret = calculate_fuel_consumption(distance, default, wind_factor, payload_factor)

\* C7 witness: an unknown type at 1000 km burns the default 2.0 l/100km
C7_Witness ==
    /\ Done("calculate_fuel_consumption")
    /\ op.args = <<Num(1000), glider, Num(1), Num(1)>>
    /\ ret.exc = "none"
    /\ ret.val.total_fuel = Num(20)

\* the profile row of a type, read off the table without get_aircraft_info
RowOf(aircraft_type) ==
    LET k == IF KnownType(aircraft_type) THEN Lower(aircraft_type) ELSE default
    IN  (CHOOSE e \in {aircraft_profiles[i] : i \in 1..Len(aircraft_profiles)} : e.key = k).value

\* C8: the result of calculate_fuel_consumption has fuel_per_100km =
\* fuel_rate * wind_factor * payload_factor, total_fuel = (distance / 100) *
\* fuel_per_100km, flight_time = distance / cruise_speed, distance = the
\* input, and fuel_per_hour = total_fuel / flight_time when flight_time > 0
\* and 0 otherwise; no call divides by zero, and fuel_per_hour is 0 for
\* distance <= 0.
C8_FuelModel ==
    Done("calculate_fuel_consumption") =>
        LET distance == op.args[1]
            row == RowOf(op.args[2])
            r == ret.val
        IN  /\ ret.exc = "none"
            /\ r.fuel_per_100km = Mul(row.fuel_rate, Mul(op.args[3], op.args[4]))
            /\ Mul(r.total_fuel, Num(100)) = Mul(distance, r.fuel_per_100km)
            /\ Mul(r.flight_time, row.cruise_speed) = distance
            /\ r.distance = distance
            /\ IF Less(Zero, r.flight_time)
               THEN Mul(r.fuel_per_hour, r.flight_time) = r.total_fuel
               ELSE r.fuel_per_hour = Zero
            /\ LessEq(distance, Zero) => r.fuel_per_hour = Zero

\* C8 witness: a flight of zero length, and so of zero flight time
C8_Witness ==
    /\ Done("calculate_fuel_consumption")
    /\ op.args[1] = Zero
    /\ ret.exc = "none"
    /\ ret.val.flight_time = Zero
    /\ ret.val.fuel_per_hour = Zero

\* the aircraft types of a list of entries whose efficiency is e
TypesAt(entries, e) ==
    LET At(x) == x.efficiency = e
        hits == SelectSeq(entries, At)
    IN  [i \in 1..Len(hits) |-> hits[i].aircraft_type]

\* the entries in input order
Unsorted(distance, aircraft_types) ==
    [i \in 1..Len(aircraft_types) |-> CompareEntry(distance, aircraft_types[i]).val]

\* C9: compare_aircraft_efficiency returns one entry per element of the
\* input list, efficiency non-increasing from first to last, entries of
\* equal efficiency in their input order.
C9_ComparatorOutput ==
    Done("compare_aircraft_efficiency") =>
        LET distance == op.args[1]
            aircraft_types == op.args[2]
            results == ret.val
            unsorted == Unsorted(distance, aircraft_types)
        IN  /\ ret.exc = "none"
            /\ Len(results) = Len(aircraft_types)
            /\ \A i \in 1..(Len(results) - 1) :
                  LessEq(results[i + 1].efficiency, results[i].efficiency)
            /\ \A i \in 1..Len(unsorted) :
                  TypesAt(results, unsorted[i].efficiency)
                     = TypesAt(unsorted, unsorted[i].efficiency)

\* C9 witness: a tie between two spellings of one type, placed after a
\* better type that came last in the input
C9_Witness ==
    /\ Done("compare_aircraft_efficiency")
    /\ op.args = <<Num(1000), <<BOEING_737, boeing_737, cessna_172>>>>
    /\ ret.exc = "none"
    /\ TypesAt(ret.val, Num(40)) = <<BOEING_737, boeing_737>>
    /\ ret.val[1].aircraft_type = cessna_172

\* C10: for distance > 0 and two keys a, b of the profile table with
\* fuel_rate(a) < fuel_rate(b), total fuel for a is less than total fuel for
\* b and a comes before b in the result of compare_aircraft_efficiency; and
\* compare(1000, [boeing_737, airbus_a320, cessna_172]) returns exactly
\* cessna_172, airbus_a320, boeing_737.
C10_LowerRateRanksBetter ==
    Done("compare_aircraft_efficiency") =>
        LET distance == op.args[1]
            results == ret.val
        IN  /\ Less(Zero, distance) =>
                  \A i, j \in 1..Len(results) :
                     LET a == results[i].aircraft_type
                         b == results[j].aircraft_type
                     IN  (/\ a \in Keys(aircraft_profiles)
                          /\ b \in Keys(aircraft_profiles)
                          /\ Less(RowOf(a).fuel_rate, RowOf(b).fuel_rate))
                            => /\ Less(results[i].fuel_consumption, results[j].fuel_consumption)
                               /\ i < j
            /\ op.args = <<Num(1000), <<boeing_737, airbus_a320, cessna_172>>>> =>
                  [i \in 1..Len(results) |-> results[i].aircraft_type]
                     = <<cessna_172, airbus_a320, boeing_737>>

\* C10 witness: the three aircraft of the example, ranked
C10_Witness ==
    /\ Done("compare_aircraft_efficiency")
    /\ op.args = <<Num(1000), <<boeing_737, airbus_a320, cessna_172>>>>
    /\ ret.exc = "none"
    /\ Len(ret.val) = 3
    /\ ret.val[1].aircraft_type = cessna_172
    /\ ret.val[1].fuel_consumption = Num(8)
    /\ ret.val[3].fuel_consumption = Num(25)

\* what export_airports writes, imported into a freshly constructed manager
RoundTrip == import_airports(load_default_airports, export_airports(airports))

\* registry r holds the keys of the registry and, under each, an airport with
\* the same fields
SameAirports(r) ==
    /\ Keys(r) = Keys(airports)
    /\ \A k \in Keys(airports) :
          LET a == DictGet(airports, k, None)
              b == DictGet(r, k, None)
          IN  /\ b.icao_code = a.icao_code
              /\ b.name = a.name
              /\ b.city = a.city
              /\ b.country = a.country
              /\ b.latitude = a.latitude
              /\ b.longitude = a.longitude
              /\ b.elevation = a.elevation

\* how the round trip ended: without an exception and with the same airports
Kept(r) == r.exc = "none" /\ SameAirports(r.airports)

\* C11: the records export_airports produces, imported into a freshly
\* constructed AirportManager, give a registry with the same set of keys
\* and, under each key, an airport with the same icao_code, name, city,
\* country, latitude, longitude and elevation.
C11_ExportImportRoundTrip == Kept(RoundTrip)

\* C11 witness: a registry with a default overwritten and an airport added
\* without elevation has been exported, and the round trip keeps both
C11_Witness ==
    /\ op.name = "export_airports"
    /\ DictGet(airports, UUEE, None).name = NameSVO
    /\ HasKey(airports, abcd)
    /\ DictGet(RoundTrip.airports, UUEE, None).elevation = 192
    /\ DictGet(RoundTrip.airports, abcd, None).elevation = 0

\* C12: analyze_conditions with a visibility below the dangerous visibility
\* threshold returns overall_condition "dangerous", whatever the
\* temperature, the pressure and the wind_speed are.
C12_DangerousVisibility ==
    (/\ Done("analyze_conditions")
     /\ Len(op.args) = 4
     /\ op.args[4] # None
     /\ op.args[4].value < visibility_thresholds.dangerous)
        => ret.val.overall_condition = "dangerous"

\* C12 witness: visibility 400 in otherwise excellent weather
C12_Witness ==
    /\ Done("analyze_conditions")
    /\ op.args = <<20, 1013, 0, Visibility(400)>>
    /\ ret.val.overall_condition = "dangerous"

\* "UUDD", "UUMO"
UUDD == <<85, 85, 68, 68>>
UUMO == <<85, 85, 77, 79>>

\* "Москва"
Moskva == <<1052, 1086, 1089, 1082, 1074, 1072>>

\* query is a substring of text, letters compared in upper case
ContainsIgnoreCase(text, query) ==
    \E i \in 0..(Len(text) - Len(query)) :
       \A j \in 1..Len(query) : UpperChar(text[i + j]) = UpperChar(query[j])

\* the stored airports a query should find, in insertion order
Expected(query) ==
    LET Hit(a) == \/ ContainsIgnoreCase(a.name, query)
                  \/ ContainsIgnoreCase(a.city, query)
                  \/ ContainsIgnoreCase(a.country, query)
                  \/ ContainsIgnoreCase(a.icao_code, query)
    IN  SelectSeq(Values(airports), Hit)

Codes(list) == [i \in 1..Len(list) |-> list[i].icao_code]

SearchResult ==
    op.name = "search_airports" =>
        /\ ret = Returned(Expected(op.args[1]))
        /\ (op.args[1] = Moskva /\ airports = load_default_airports)
              => Codes(ret.val) = <<UUEE, UUDD, UUMO>>

SearchFrame == op'.name = "search_airports" => airports' = airports

\* C13: search_airports returns exactly the registered airports whose name,
\* city, country or ICAO code contains the query ignoring letter case, each
\* once, in insertion order, and leaves the registry unchanged; on the
\* default registry "Москва" returns UUEE, UUDD, UUMO.
C13_Search == [](SearchResult) /\ [][SearchFrame]_vars

\* C13 witness: "uu" finds the three defaults by their codes and, after them,
\* an airport added under the lower-case code "uuee"
C13_Witness ==
    /\ op = Call("search_airports", <<<<117, 117>>>>)
    /\ HasKey(airports, uuee)
    /\ Codes(ret.val) = <<UUEE, UUDD, UUMO, uuee>>

\* the registry key of an airport: its ICAO code, uppercased
KeyOf(a) == Upper(a.icao_code)

\* the entry under k, if any
EntryAt(d, k) == DictGet(d, k, None)

AddFrame ==
    \A a \in NewAirports :
       op' = Call("add_airport", <<a>>) =>
          /\ ret' = Returned(None)
          /\ EntryAt(airports', KeyOf(a)) = a
          /\ \A k \in (Keys(airports) \cup Keys(airports')) \ {KeyOf(a)} :
                EntryAt(airports', k) = EntryAt(airports, k)

NoKeyRemoved == Keys(airports) \subseteq Keys(airports')

DefaultsRegistered ==
    \A i \in 1..Len(default_airports) : HasKey(airports, default_airports[i].icao_code)

\* C14: add_airport(a) never fails, makes the entry under a's key equal to a
\* and leaves every other entry unchanged; no operation removes a key, and
\* the 10 default codes stay registered in every reachable state.
C14_FrameOfAdd == [][AddFrame /\ NoKeyRemoved]_vars /\ []DefaultsRegistered

Has(list, x) == \E i \in 1..Len(list) : list[i] = x

\* C15: the recommendations returned by analyze_conditions are never empty,
\* hold the favourable-conditions message only as their sole element, and
\* never hold it when overall_condition is "poor" or "dangerous".
C15_AdvisoriesConsistent ==
    Done("analyze_conditions") =>
        /\ ret.exc = "none"
        /\ ret.val.recommendations # <<>>
        /\ Has(ret.val.recommendations, Favourable)
              => ret.val.recommendations = <<Favourable>>
        /\ ret.val.overall_condition \in {"poor", "dangerous"}
              => ~Has(ret.val.recommendations, Favourable)

\* C15 witness: wind 26 m/s alone makes the conditions poor, and the only
\* advisory is the strong-wind one
C15_Witness ==
    /\ Done("analyze_conditions")
    /\ op.args = <<20, 1013, 26>>
    /\ ret.val.overall_condition = "poor"
    /\ ret.val.recommendations = <<StrongWind>>

\* FuelCalculator's result for the same distance and type at the default factors
AtDefaultFactors(distance, aircraft_type) ==
    calculate_fuel_consumption(distance, aircraft_type, Num(1), Num(1))

SameTotalFuel(flight, fuel) ==
    /\ fuel.exc = "none"
    /\ flight = Returned(fuel.val.total_fuel)

SameRates ==
    /\ Keys(fuel_rates) = Keys(aircraft_profiles)
    /\ \A k \in Keys(fuel_rates) :
          DictGet(fuel_rates, k, None) = DictGet(aircraft_profiles, k, None).fuel_rate

\* C16: FlightCalculator.calculate_fuel_consumption(distance, type) equals the
\* total_fuel of FuelCalculator.calculate_fuel_consumption(distance, type) at
\* wind_factor = payload_factor = 1.0, for types known in any letter case or
\* unknown; the two fuel-rate tables hold the same keys and the same rates.
C16_CalculatorsAgree ==
    /\ SameRates
    /\ Done("FlightCalculator.calculate_fuel_consumption") =>
          SameTotalFuel(ret, AtDefaultFactors(op.args[1], op.args[2]))

\* C16 witness: 1000 km in a "BOEING_737" takes 25 litres by both calculators
C16_Witness ==
    /\ Done("FlightCalculator.calculate_fuel_consumption")
    /\ op.args = <<Num(1000), BOEING_737>>
    /\ ret = Returned(Num(25))
    /\ AtDefaultFactors(Num(1000), BOEING_737).val.total_fuel = Num(25)

====
